---------------------------- MODULE Spec2Model ----------------------------
(***************************************************************************)
(* A model of loopy/utils.py: the pitch table and its lookups, beat2index, *)
(* add_y, seq_note_parser and get_chord_notes.                             *)
(*                                                                         *)
(* One behaviour is one call.  An Invoke action draws the function called  *)
(* (op) and its arguments (args); the other actions execute the body of    *)
(* that function; ret is what the call returns or raises; local holds the  *)
(* locals of the running call and the caller-owned array add_y mutates.    *)
(*                                                                         *)
(* Python values: a list is a sequence (Python index k is TLA+ index k+1), *)
(* a str built by an f-string or + is a TLA+ string built with \o, a str   *)
(* that is split is a sequence of one-character strings, a float is the    *)
(* exact fraction <<numerator, denominator>> in lowest terms (the inputs   *)
(* are dyadic, so every float operation of the model is exact in IEEE      *)
(* double as well), a numpy array is its shape (frames, channels) and its  *)
(* frames, each a sequence of samples.  A call's outcome is                *)
(* [tag |-> "ok", val |-> v] or [tag |-> <the exception's class>].         *)
(***************************************************************************)
EXTENDS Integers, Sequences, FiniteSets, TLC

VARIABLES op, pc, args, local, ret

vars == <<op, pc, args, local, ret>>

\* ------------------------------------------------------------------ bounds

\* Numeric ids are drawn from (-87 - IdMargin) .. (108 + IdMargin).
IdMargin == 3
\* Input sequences of seq_note_parser have at most MaxLen ticks.
MaxLen == 4
\* Arrays given to add_y have at most MaxFrames frames.
MaxFrames == 3
\* Beat positions are k / 2^e with |k| <= MaxPosNum and e <= MaxPosExp.
MaxPosNum == 3
MaxPosExp == 2

\* ----------------------------------------------------------- Python values

Ok(v) == [tag |-> "ok", val |-> v]
Raise(e) == [tag |-> e]
None == [tag |-> "none"]

Abs(k) == IF k < 0 THEN -k ELSE k
Min(a, b) == IF a <= b THEN a ELSE b
Max(a, b) == IF a >= b THEN a ELSE b

RECURSIVE GCD(_, _)
GCD(a, b) == IF b = 0 THEN a ELSE GCD(b, a % b)

\* A float, as the fraction n/d in lowest terms with d > 0.
Frac(n, d) ==
    LET s == IF d < 0 THEN -1 ELSE 1
        g == GCD(Abs(n), Abs(d))
    IN  <<(s * n) \div g, (s * d) \div g>>

FloatMulInt(a, k) == Frac(a[1] * k, a[2])
\* a / b: ZeroDivisionError when b is zero.
FloatDiv(a, b) ==
    IF b[1] = 0 THEN Raise("ZeroDivisionError")
    ELSE Ok(Frac(a[1] * b[2], a[2] * b[1]))

\* int(x) rounding down instead of toward zero.
PyInt_floor(x) == x[1] \div x[2]

\* int(x) of a float: the integer part, rounded toward zero.
PyInt(x) == IF x[1] >= 0 THEN x[1] \div x[2] ELSE -((-x[1]) \div x[2])

\* list[k]: a negative k counts from the end, IndexError outside -len..len-1.
PyGetItem(list, k) ==
    LET len == Len(list)
    IN  IF 0 <= k /\ k < len THEN Ok(list[k + 1])
        ELSE IF -len <= k /\ k < 0 THEN Ok(list[len + k + 1])
        ELSE Raise("IndexError")

\* list.index(x): the first position holding x, ValueError when there is none.
PyIndex(list, x) ==
    IF \E k \in 1..Len(list) : list[k] = x
    THEN Ok((CHOOSE k \in 1..Len(list) :
                 list[k] = x /\ \A m \in 1..(k - 1) : list[m] # x) - 1)
    ELSE Raise("ValueError")

\* The pop written as a slice that drops everything from element k on.
ListPop_tail(list, k) == SubSeq(list, 1, k)

\* list.pop(k) for 0 <= k < len: the list without its element k.
ListPop(list, k) ==
    [m \in 1..(Len(list) - 1) |-> IF m <= k THEN list[m] ELSE list[m + 1]]

\* list.insert(k, x): x is put before position k; a negative k counts from
\* the end, and the position is clamped to 0..len.
ListInsert(list, k, x) ==
    LET len == Len(list)
        at == IF k < 0 THEN Max(len + k, 0) ELSE Min(k, len)
    IN  SubSeq(list, 1, at) \o <<x>> \o SubSeq(list, at + 1, len)

\* ------------------------------------------------------------- pitch table

\* The octave with the sharp of A# left out, so that A is named twice.
OctaveKeys_flat(oct) ==
    << "C#" \o ToString(oct), "D" \o ToString(oct), "D#" \o ToString(oct),
       "E" \o ToString(oct), "F" \o ToString(oct), "F#" \o ToString(oct),
       "G" \o ToString(oct), "G#" \o ToString(oct), "A" \o ToString(oct),
       "A" \o ToString(oct), "B" \o ToString(oct), "C" \o ToString(oct + 1) >>

\* The twelve names the loop body appends for octave number oct.
OctaveKeys(oct) ==
    << "C#" \o ToString(oct), "D" \o ToString(oct), "D#" \o ToString(oct),
       "E" \o ToString(oct), "F" \o ToString(oct), "F#" \o ToString(oct),
       "G" \o ToString(oct), "G#" \o ToString(oct), "A" \o ToString(oct),
       "A#" \o ToString(oct), "B" \o ToString(oct), "C" \o ToString(oct + 1) >>

\* PIANO_KEYS after the iterations for octaves 1 .. oct.
RECURSIVE KeysUpTo(_)
KeysUpTo(oct) ==
    IF oct = 0 THEN <<"A0", "A#0", "B0", "C0">>
    ELSE KeysUpTo(oct - 1) \o OctaveKeys(oct)

PIANO_KEYS == KeysUpTo(7)

piano_id2piano_key(piano_id) == PyGetItem(PIANO_KEYS, piano_id - 1)

piano_key2piano_id(piano_key) ==
    LET at == PyIndex(PIANO_KEYS, piano_key)
    IN  IF at.tag = "ok" THEN Ok(at.val + 1) ELSE at

piano_key2midi_id(piano_key) ==
    LET at == PyIndex(PIANO_KEYS, piano_key)
    IN  IF at.tag = "ok" THEN Ok(at.val + 21) ELSE at

midi_id2piano_key(midi_id) == PyGetItem(PIANO_KEYS, midi_id - 21)

\* ---------------------------------------------------------------- beat2index

beat2index(pos_in_pattern, bpm, sr) ==
    LET q == FloatDiv(FloatMulInt(FloatMulInt(pos_in_pattern, 60), sr),
                      Frac(bpm, 1))
    IN  IF q.tag = "ok" THEN Ok(PyInt(q.val)) ELSE q

\* ----------------------------------------------------------------- parse_sig

DIGITS == <<"0", "1", "2", "3", "4", "5", "6", "7", "8", "9">>

\* str.split('/') of a str given as its characters.
RECURSIVE Split(_)
Split(s) ==
    IF \A k \in 1..Len(s) : s[k] # "/" THEN <<s>>
    ELSE LET at == CHOOSE k \in 1..Len(s) :
                       s[k] = "/" /\ \A m \in 1..(k - 1) : s[m] # "/"
         IN  <<SubSeq(s, 1, at - 1)>> \o Split(SubSeq(s, at + 1, Len(s)))

RECURSIVE DigitsValue(_)
DigitsValue(s) ==
    IF s = <<>> THEN 0
    ELSE DigitsValue(SubSeq(s, 1, Len(s) - 1)) * 10
         + ((CHOOSE d \in 1..10 : DIGITS[d] = s[Len(s)]) - 1)

\* int(x) of a str of decimal digits: ValueError for anything else.
PyIntOfStr(s) ==
    IF s # <<>> /\ \A k \in 1..Len(s) : \E d \in 1..10 : DIGITS[d] = s[k]
    THEN Ok(DigitsValue(s))
    ELSE Raise("ValueError")

\* Returns (beats_per_bar, beat_value).
parse_sig(sig) ==
    LET toks == Split(sig)
        ints == [k \in 1..Len(toks) |-> PyIntOfStr(toks[k])]
    IN  IF \E k \in 1..Len(ints) : ints[k].tag # "ok" THEN Raise("ValueError")
        ELSE IF Len(ints) # 2 THEN Raise("ValueError")
        ELSE IF ints[2].val = 0 THEN Raise("ZeroDivisionError")
        ELSE Ok(<<ints[1].val, Frac(1, ints[2].val)>>)

\* ------------------------------------------------------------------- add_y

\* An array of shape (frames, channels).
Array(frames, channels, data) == [shape |-> <<frames, channels>>, data |-> data]

\* The bounds lo, hi of the rows a[start:stop] selects among len rows.
SliceIndex(len, k) == IF k < 0 THEN Max(len + k, 0) ELSE Min(k, len)

\* a[start:stop, :] += b, in place: b is broadcast to the shape of the slice,
\* which numpy allows when each dimension of b is that of the slice or 1, and
\* refuses with a ValueError, leaving a as it was, otherwise.
InplaceAddSlice(a, start, stop, b) ==
    LET lo == SliceIndex(a.shape[1], start)
        hi == SliceIndex(a.shape[1], stop)
        rows == Max(hi - lo, 0)
    IN  IF /\ b.shape[1] = rows \/ b.shape[1] = 1
           /\ b.shape[2] = a.shape[2] \/ b.shape[2] = 1
        THEN [err |-> None,
              array |-> Array(a.shape[1], a.shape[2],
                  [r \in 1..a.shape[1] |-> [c \in 1..a.shape[2] |->
                      IF lo < r /\ r <= lo + rows
                      THEN a.data[r][c]
                           + b.data[IF b.shape[1] = 1 THEN 1 ELSE r - lo]
                                   [IF b.shape[2] = 1 THEN 1 ELSE c]
                      ELSE a.data[r][c]]])]
        ELSE [err |-> Raise("ValueError"), array |-> a]

ed_index(target_y, source_y, st_index) ==
    LET source_len == source_y.shape[1]
    IN  Min(st_index + source_len, target_y.shape[1])

\* The outcome of the call and target_y after it.
add_y(target_y, source_y, st_index) ==
    InplaceAddSlice(target_y, st_index,
                    ed_index(target_y, source_y, st_index), source_y)

\* --------------------------------------------------------- seq_note_parser

convert_func(input_id_type, id) ==
    IF input_id_type = "midi" THEN midi_id2piano_key(id)
    ELSE piano_id2piano_key(id)

\* The run's length in ticks, the resolution forgotten.
note_value_ticks(resolution, i, j) == Frac(j - i, 1)

note_value(resolution, i, j) == FloatMulInt(resolution, j - i)

\* The position in whole notes, not divided by the beat value.
pos_in_pattern_notes(resolution, i, beat_value) == FloatMulInt(resolution, i)

\* resolution * i / beat_value; beat_value is 1/n, never zero.
pos_in_pattern(resolution, i, beat_value) ==
    FloatDiv(FloatMulInt(resolution, i), beat_value).val

\* --------------------------------------------------------- get_chord_notes

SCALE2CHORD_TYPES ==
    [maj |-> <<"maj", "min", "min", "maj", "maj", "min", "dim">>,
     min |-> <<"min", "dim", "maj", "min", "min", "maj", "maj">>]

CHORD2POS ==
    [maj |-> <<0, 4, 7>>, min |-> <<0, 3, 7>>,
     dim |-> <<0, 3, 6>>, aug |-> <<0, 4, 8>>]

SCALE2STEPS ==
    [maj |-> <<0, 2, 4, 5, 7, 9, 11>>,
     min |-> <<0, 2, 3, 5, 7, 8, 10>>]

\* midi_indices when the list comprehension of the last statement starts,
\* or what was raised before it.
midi_indices(a) ==
    IF a.chord_id \notin 1..7 THEN Raise("AssertionError")
    ELSE
    LET chord_type == SCALE2CHORD_TYPES[a.scale_type][a.chord_id]
        root == piano_key2midi_id(a.scale_root \o a.root_area)
    IN  IF root.tag # "ok" THEN root
        ELSE
        LET delta == root.val + SCALE2STEPS[a.scale_type][a.chord_id]
            m0 == [k \in 1..3 |-> CHORD2POS[chord_type][k] + delta]
            m1 == IF a.del_second THEN ListPop(m0, 1) ELSE m0
            m2 == IF a.decr_octave THEN ListInsert(m1, 0, m1[1] - 12) ELSE m1
            m3 == IF a.incr_octave
                  THEN ListInsert(m2, -1, m2[Len(m2)] + 12) ELSE m2
        IN  Ok(m3)

get_chord_notes(a) ==
    LET ids == midi_indices(a)
    IN  IF ids.tag # "ok" THEN ids
        ELSE
        LET notes == [k \in 1..Len(ids.val) |-> midi_id2piano_key(ids.val[k])]
        IN  IF \E k \in 1..Len(notes) : notes[k].tag # "ok"
            THEN Raise("IndexError")
            ELSE Ok([k \in 1..Len(notes) |-> notes[k].val])

\* ------------------------------------------------------------------ inputs

IdInputs == (-87 - IdMargin)..(108 + IdMargin)

PositionInputs ==
    {Frac(k, 2 ^ e) : k \in (-MaxPosNum)..MaxPosNum, e \in 0..MaxPosExp}
BpmInputs == {0, 60, 90, 128}
SrInputs == {1, 8000, 44100}

\* Arrays holding one value everywhere, and arrays whose samples all differ.
Full(frames, channels, v) ==
    Array(frames, channels, [r \in 1..frames |-> [c \in 1..channels |-> v]])
Ramp(frames, channels) ==
    Array(frames, channels,
          [r \in 1..frames |-> [c \in 1..channels |-> 10 * r + c]])
TargetInputs ==
    {Full(f, c, 0) : f \in 0..MaxFrames, c \in 1..2}
        \cup {Ramp(f, c) : f \in 0..MaxFrames, c \in 1..2}
SourceInputs ==
    {Full(f, c, 1) : f \in 0..MaxFrames, c \in 1..2}
        \cup {Ramp(f, c) : f \in 0..MaxFrames, c \in 1..2}
StIndexInputs == (-2)..(MaxFrames + 1)

\* Ticks: the default rest, two ids valid as MIDI and as piano ids, and one
\* id beyond both tables.
TickInputs == {0, 60, 62, 200}
SeqInputs == UNION {[1..len -> TickInputs] : len \in 0..MaxLen}
SigInputs ==
    {<<"4", "/", "4">>, <<"3", "/", "8">>, <<"4">>, <<"4", "/", "0">>}
ResolutionInputs == {Frac(1, 16), Frac(1, 8)}
IdTypeInputs == {"midi", "piano", "freq"}
RestIdInputs == {0, 62}

ChordInputs ==
    [chord_id : 0..8, scale_root : {"A", "C", "G#"}, scale_type : {"maj", "min"},
     root_area : {"0", "1", "4", "8"}, del_second : BOOLEAN,
     decr_octave : BOOLEAN, incr_octave : BOOLEAN]

\* Nothing is called yet.
Init ==
    /\ op = "none"
    /\ pc = "idle"
    /\ args = None
    /\ local = None
    /\ ret = None

\* ----------------------------------------------------------------- actions

\* The caller's calls: the function and its arguments.
Invoke_id2piano_key ==
    /\ pc = "idle"
    /\ op' \in {"piano_id2piano_key", "midi_id2piano_key"}
    /\ args' \in [id : IdInputs]
    /\ pc' = "call"
    /\ UNCHANGED <<local, ret>>

Invoke_beat2index ==
    /\ pc = "idle"
    /\ op' = "beat2index"
    /\ args' \in [pos_in_pattern : PositionInputs, bpm : BpmInputs, sr : SrInputs]
    /\ pc' = "call"
    /\ UNCHANGED <<local, ret>>

\* local is the caller's array target_y, which the call mutates.
Invoke_add_y ==
    /\ pc = "idle"
    /\ op' = "add_y"
    /\ args' \in [target_y : TargetInputs, source_y : SourceInputs,
                  st_index : StIndexInputs]
    /\ local' = args'.target_y
    /\ pc' = "call"
    /\ UNCHANGED ret

Invoke_seq_note_parser ==
    /\ pc = "idle"
    /\ op' = "seq_note_parser"
    /\ args' \in [seq : SeqInputs, sig : SigInputs, resolution : ResolutionInputs,
                  input_id_type : IdTypeInputs, rest_id : RestIdInputs]
    /\ pc' = "call"
    /\ UNCHANGED <<local, ret>>

Invoke_get_chord_notes ==
    /\ pc = "idle"
    /\ op' = "get_chord_notes"
    /\ args' \in ChordInputs
    /\ pc' = "call"
    /\ UNCHANGED <<local, ret>>

\* piano_id2piano_key(id); its caller goes on to piano_key2piano_id when a
\* key name came back.
Call_piano_id2piano_key ==
    /\ op = "piano_id2piano_key" /\ pc = "call"
    /\ ret' = piano_id2piano_key(args.id)
    /\ pc' = IF ret'.tag = "ok" THEN "back" ELSE "done"
    /\ UNCHANGED <<op, args, local>>

Call_piano_key2piano_id ==
    /\ op = "piano_id2piano_key" /\ pc = "back"
    /\ local' = piano_key2piano_id(ret.val)
    /\ pc' = "done"
    /\ UNCHANGED <<op, args, ret>>

Call_midi_id2piano_key ==
    /\ op = "midi_id2piano_key" /\ pc = "call"
    /\ ret' = midi_id2piano_key(args.id)
    /\ pc' = IF ret'.tag = "ok" THEN "back" ELSE "done"
    /\ UNCHANGED <<op, args, local>>

Call_piano_key2midi_id ==
    /\ op = "midi_id2piano_key" /\ pc = "back"
    /\ local' = piano_key2midi_id(ret.val)
    /\ pc' = "done"
    /\ UNCHANGED <<op, args, ret>>

Call_beat2index ==
    /\ op = "beat2index" /\ pc = "call"
    /\ ret' = beat2index(args.pos_in_pattern, args.bpm, args.sr)
    /\ pc' = "done"
    /\ UNCHANGED <<op, args, local>>

Call_add_y ==
    /\ op = "add_y" /\ pc = "call"
    /\ LET out == add_y(args.target_y, args.source_y, args.st_index)
       IN  /\ local' = out.array
           /\ ret' = IF out.err = None THEN Ok(None) ELSE out.err
    /\ pc' = "done"
    /\ UNCHANGED <<op, args>>

\* Lines 144-150: the signature, the assertion, and the locals of the loop.
\* iters counts the iterations of the outer loop started so far.
Call_seq_note_parser ==
    /\ op = "seq_note_parser" /\ pc = "call"
    /\ LET parsed == parse_sig(args.sig)
       IN  IF parsed.tag # "ok"
           THEN ret' = parsed /\ pc' = "done" /\ UNCHANGED local
           ELSE IF args.input_id_type \notin {"midi", "piano"}
           THEN ret' = Raise("AssertionError") /\ pc' = "done" /\ UNCHANGED local
           ELSE /\ local' = [beat_value |-> parsed.val[2], score |-> <<>>,
                             i |-> 0, j |-> 0, n |-> Len(args.seq), iters |-> 0]
                /\ pc' = "while"
                /\ UNCHANGED ret
    /\ UNCHANGED <<op, args>>

\* while i < n, and return score when it fails.
WhileTest ==
    /\ op = "seq_note_parser" /\ pc = "while"
    /\ IF local.i < local.n
       THEN /\ pc' = "inner"
            /\ local' = [local EXCEPT !.iters = @ + 1]
            /\ UNCHANGED ret
       ELSE /\ pc' = "done"
            /\ ret' = Ok(local.score)
            /\ UNCHANGED local
    /\ UNCHANGED <<op, args>>

\* while j < n and seq[i] == seq[j]: j += 1
InnerStep ==
    /\ op = "seq_note_parser" /\ pc = "inner"
    /\ IF local.j < local.n /\ args.seq[local.i + 1] = args.seq[local.j + 1]
       THEN local' = [local EXCEPT !.j = @ + 1] /\ pc' = "inner"
       ELSE pc' = "body" /\ UNCHANGED local
    /\ UNCHANGED <<op, args, ret>>

\* The rest branch without its i += 1.
RestTick_stuck ==
    /\ op = "seq_note_parser" /\ pc = "body"
    /\ args.seq[local.i + 1] = args.rest_id
    /\ pc' = "while"
    /\ UNCHANGED <<op, args, local, ret>>

\* if seq[i] == rest_id: i += 1; continue
RestTick ==
    /\ op = "seq_note_parser" /\ pc = "body"
    /\ args.seq[local.i + 1] = args.rest_id
    /\ local' = [local EXCEPT !.i = @ + 1]
    /\ pc' = "while"
    /\ UNCHANGED <<op, args, ret>>

\* Lines 157-162: the event of the run i .. j-1, and i = j; the conversion
\* of the run's value may raise.
EmitNote ==
    /\ op = "seq_note_parser" /\ pc = "body"
    /\ args.seq[local.i + 1] # args.rest_id
    /\ LET key_name == convert_func(args.input_id_type, args.seq[local.i + 1])
       IN  IF key_name.tag # "ok"
           THEN ret' = key_name /\ pc' = "done" /\ UNCHANGED local
           ELSE /\ local' = [local EXCEPT
                       !.score = Append(@, <<key_name.val,
                           note_value(args.resolution, local.i, local.j),
                           pos_in_pattern(args.resolution, local.i,
                                          local.beat_value)>>),
                       !.i = local.j]
                /\ pc' = "while"
                /\ UNCHANGED ret
    /\ UNCHANGED <<op, args>>

\* local keeps midi_indices as the final list comprehension finds it.
Call_get_chord_notes ==
    /\ op = "get_chord_notes" /\ pc = "call"
    /\ local' = midi_indices(args)
    /\ ret' = get_chord_notes(args)
    /\ pc' = "done"
    /\ UNCHANGED <<op, args>>

Next ==
    \/ Invoke_id2piano_key
    \/ Invoke_beat2index
    \/ Invoke_add_y
    \/ Invoke_seq_note_parser
    \/ Invoke_get_chord_notes
    \/ Call_piano_id2piano_key
    \/ Call_piano_key2piano_id
    \/ Call_midi_id2piano_key
    \/ Call_piano_key2midi_id
    \/ Call_beat2index
    \/ Call_add_y
    \/ Call_seq_note_parser
    \/ WhileTest
    \/ InnerStep
    \/ RestTick
    \/ EmitNote
    \/ Call_get_chord_notes

Spec == Init /\ [][Next]_vars

\* ------------------------------------------------------------------ claims

Finished(f) == op = f /\ pc = "done"

\* C1: the table holds 88 names, and converting a piano id in 1..88 (a MIDI
\* id in 21..108) to its key name and the name back gives the id again, the
\* name being held by no other entry of the table.
C1_RoundTrip ==
    /\ Len(PIANO_KEYS) = 88
    /\ (Finished("piano_id2piano_key") /\ args.id \in 1..88)
           => /\ ret.tag = "ok" /\ local = Ok(args.id)
              /\ \A b \in 1..88 : PIANO_KEYS[b] = ret.val => b = args.id
    /\ (Finished("midi_id2piano_key") /\ args.id \in 21..108)
           => /\ ret.tag = "ok" /\ local = Ok(args.id)
              /\ \A b \in 1..88 : PIANO_KEYS[b] = ret.val => b = args.id - 20

C1_Witness ==
    /\ Finished("midi_id2piano_key")
    /\ args.id = 70 /\ ret = Ok("A#4") /\ local = Ok(70)

\* C2: piano_id2piano_key raises for every id below 1 or above 88, and
\* midi_id2piano_key for every id below 21 or above 108.
C2_OutOfRangeRaises ==
    /\ (op = "piano_id2piano_key" /\ pc # "call" /\ args.id \notin 1..88)
           => ret.tag = "IndexError"
    /\ (op = "midi_id2piano_key" /\ pc # "call" /\ args.id \notin 21..108)
           => ret.tag = "IndexError"

\* The maximal runs of seq start where the value changes.
RunStarts(seq) == {s \in 1..Len(seq) : s = 1 \/ seq[s - 1] # seq[s]}
RunLength(seq, s) ==
    CHOOSE len \in 1..(Len(seq) - s + 1) :
        /\ \A k \in s..(s + len - 1) : seq[k] = seq[s]
        /\ s + len > Len(seq) \/ seq[s + len] # seq[s]
ValidIds(input_id_type) == IF input_id_type = "midi" THEN 21..108 ELSE 1..88
KeyNameOf(input_id_type, id) ==
    PIANO_KEYS[IF input_id_type = "midi" THEN id - 20 ELSE id]
\* The event of the run of seq that starts at tick s (counted from 1).
RunEvent(a, beat_value, s) ==
    << KeyNameOf(a.input_id_type, a.seq[s]),
       Frac(a.resolution[1] * RunLength(a.seq, s), a.resolution[2]),
       Frac(a.resolution[1] * (s - 1) * beat_value[2],
            a.resolution[2] * beat_value[1]) >>
IsRunLengthDecode(a, beat_value, score) ==
    LET sounding == {s \in RunStarts(a.seq) : a.seq[s] # a.rest_id}
        nth(k) == CHOOSE s \in sounding :
                      Cardinality({t \in sounding : t < s}) = k - 1
    IN  /\ Len(score) = Cardinality(sounding)
        /\ \A k \in 1..Len(score) : score[k] = RunEvent(a, beat_value, nth(k))

\* C3: for a sequence whose non-rest values are valid ids, seq_note_parser
\* returns, in ascending start index, one event per maximal run of equal
\* values other than rest_id: (key name of the value, resolution * length,
\* resolution * start / beat_value); rest runs give no event.
C3_RunLengthDecode ==
    ( /\ Finished("seq_note_parser")
      /\ parse_sig(args.sig).tag = "ok"
      /\ args.input_id_type \in {"midi", "piano"}
      /\ \A k \in 1..Len(args.seq) :
             args.seq[k] # args.rest_id
                 => args.seq[k] \in ValidIds(args.input_id_type) )
    => /\ ret.tag = "ok"
       /\ IsRunLengthDecode(args, parse_sig(args.sig).val[2], ret.val)

C3_Witness ==
    /\ Finished("seq_note_parser")
    /\ args.seq = <<60, 0, 60>> /\ args.rest_id = 0
    /\ args.input_id_type = "midi"
    /\ args.sig = <<"4", "/", "4">> /\ args.resolution = <<1, 16>>
    /\ ret = Ok(<< <<"C4", <<1, 16>>, <<0, 1>>>>, <<"C4", <<1, 16>>, <<1, 2>>>> >>)

\* The frames of source that fall inside target when it is written at
\* st_index, added to target; the rest of target as it was.
ClippedSum(target, source, st_index) ==
    [r \in 1..target.shape[1] |-> [c \in 1..target.shape[2] |->
        IF r > st_index
        THEN target.data[r][c] + source.data[r - st_index][c]
        ELSE target.data[r][c]]]

\* C4: when 0 <= st_index and the source runs past the end of the target,
\* add_y raises nothing and adds the first frameCount(target) - st_index
\* frames of source into the target from st_index on, the frames below
\* st_index unchanged.  Stated for a start inside the target, where at least
\* one frame is to be written, and equal channel counts.
C4_ClipsSilently ==
    ( /\ Finished("add_y")
      /\ args.source_y.shape[2] = args.target_y.shape[2]
      /\ 0 <= args.st_index /\ args.st_index < args.target_y.shape[1]
      /\ args.st_index + args.source_y.shape[1] > args.target_y.shape[1] )
    => /\ ret = Ok(None)
       /\ local.shape = args.target_y.shape
       /\ local.data = ClippedSum(args.target_y, args.source_y, args.st_index)

\* C5: add_y raises, and leaves the target as it was, whenever source and
\* target differ in their number of channels.  Stated for a source that has
\* frames and a start inside the target.
C5_ChannelMismatchRaises ==
    ( /\ Finished("add_y")
      /\ args.source_y.shape[2] # args.target_y.shape[2]
      /\ args.source_y.shape[1] >= 1
      /\ 0 <= args.st_index /\ args.st_index < args.target_y.shape[1] )
    => (ret.tag = "ValueError" /\ local = args.target_y)

\* C6: get_chord_notes raises whenever a MIDI id of its final list lies
\* outside 21..108.
C6_ChordIdOutOfRangeRaises ==
    ( /\ Finished("get_chord_notes")
      /\ local.tag = "ok"
      /\ \E k \in 1..Len(local.val) : local.val[k] \notin 21..108 )
    => ret.tag = "IndexError"

Bit(b) == IF b THEN 1 ELSE 0

\* C7: a list get_chord_notes returns has 3 - del_second + decr_octave
\* + incr_octave elements.
C7_ChordSize ==
    (Finished("get_chord_notes") /\ ret.tag = "ok")
    => /\ args.chord_id \in 1..7
       /\ Len(ret.val) = 3 - Bit(args.del_second) + Bit(args.decr_octave)
                           + Bit(args.incr_octave)

C7_Witness ==
    /\ Finished("get_chord_notes") /\ ret.tag = "ok"
    /\ args.del_second /\ args.decr_octave /\ args.incr_octave
    /\ Len(ret.val) = 4

\* position * 60 * sr / bpm as numerator and denominator, and its floor.
BeatNum == args.pos_in_pattern[1] * 60 * args.sr
BeatDen == args.pos_in_pattern[2] * args.bpm
BeatFloor == BeatNum \div BeatDen

\* C8 as stated: beat2index returns floor(position * 60 * sr / bpm) for
\* every position and every bpm > 0, a negative index for every negative
\* position.
C8_Floor ==
    (Finished("beat2index") /\ args.bpm > 0)
    => /\ ret = Ok(BeatFloor)
       /\ args.pos_in_pattern[1] < 0 => ret.val < 0

\* C8 as amended: beat2index returns position * 60 * sr / bpm rounded toward
\* zero, which is the floor for a position >= 0; a negative position gives
\* an index <= 0.
C8_TowardZero ==
    (Finished("beat2index") /\ args.bpm > 0)
    => /\ ret = Ok(IF BeatNum >= 0 \/ BeatNum % BeatDen = 0
                   THEN BeatFloor ELSE BeatFloor + 1)
       /\ args.pos_in_pattern[1] >= 0 => ret.val = BeatFloor
       /\ args.pos_in_pattern[1] < 0 => ret.val <= 0

C8_Witness ==
    /\ Finished("beat2index")
    /\ args.pos_in_pattern = <<-1, 2>> /\ args.bpm = 128 /\ args.sr = 44100
    /\ ret = Ok(-10335)

\* C9 as stated: a sequence of length 1 gives exactly one event, whose
\* duration is the resolution.
C9_OneEvent ==
    (Finished("seq_note_parser") /\ Len(args.seq) = 1 /\ ret.tag = "ok")
    => (Len(ret.val) = 1 /\ ret.val[1][2] = args.resolution)

\* C9 as amended: a sequence of length 1 whose value is not rest_id gives,
\* when the call returns, exactly one event, whose duration is the
\* resolution; a sequence of length 1 holding rest_id gives no event.
C9_OneEventUnlessRest ==
    (Finished("seq_note_parser") /\ Len(args.seq) = 1 /\ ret.tag = "ok")
    => IF args.seq[1] = args.rest_id
       THEN ret.val = <<>>
       ELSE Len(ret.val) = 1 /\ ret.val[1][2] = args.resolution

C9_Witness ==
    /\ Finished("seq_note_parser")
    /\ args.seq = <<60>> /\ args.rest_id = 0 /\ args.resolution = <<1, 8>>
    /\ ret.tag = "ok" /\ Len(ret.val) = 1 /\ ret.val[1][2] = <<1, 8>>

InLoop == op = "seq_note_parser" /\ pc \in {"while", "inner", "body"}

\* A natural number that every step of the loop decreases: the ticks left
\* to i and to j, and the steps left in the current iteration.
LoopMeasure ==
    IF InLoop
    THEN 3 * (local.n - local.i) + (local.n - local.j)
         + (CASE pc = "while" -> 3 [] pc = "inner" -> 2 [] pc = "body" -> 1)
    ELSE 0

\* C10: the scanning loop terminates: 0 <= i <= j <= n throughout, every
\* outer iteration strictly increases i (by 1 on a rest tick, to j after an
\* event), there are at most n outer iterations, the loop is left with
\* i = n, and no step of the loop blocks or fails to decrease LoopMeasure.
C10_LoopTerminates ==
    /\ [](InLoop => /\ 0 <= local.i /\ local.i <= local.j
                    /\ local.j <= local.n
                    /\ local.iters <= local.n
                    /\ ENABLED Next)
    /\ []((Finished("seq_note_parser") /\ ret.tag = "ok")
              => (local.i = local.n /\ local.iters <= local.n))
    /\ [][(InLoop /\ pc = "body" /\ pc' = "while")
              => /\ local'.i > local.i
                 /\ local'.i = IF args.seq[local.i + 1] = args.rest_id
                               THEN local.i + 1 ELSE local.j]_vars
    /\ [][InLoop => LoopMeasure' < LoopMeasure]_vars

C10_Witness ==
    /\ Finished("seq_note_parser") /\ ret.tag = "ok"
    /\ args.seq = <<60, 0, 0>> /\ args.rest_id = 0
    /\ local.i = 3 /\ local.n = 3 /\ local.iters = 3


=============================================================================
